---- MODULE Spec2Model ----
(***************************************************************************)
(* The content-organizer client: the row store gateway (content_items      *)
(* table), the App component (handleAddItem and its detached enrichment    *)
(* pipeline, handleUpdateItem, handleRefresh, the content subscription),   *)
(* the ContentCard handlers, the AddContentForm, the batch organize of the *)
(* DashboardPage and the saves of the SettingsPage, as state machines over *)
(* one remote table.                                                       *)
(*                                                                         *)
(* A network call is two steps: the remote side acts (the store applies    *)
(* the statement, the model answers), then the awaiting handler resumes.   *)
(* Where the awaiting handler does nothing between the two but wait, the   *)
(* answer and the resumption are one action.                               *)
(***************************************************************************)
EXTENDS Integers, Sequences, FiniteSets, TLC

\* ---------------------------------------------------------------- bounds
MaxItems == 2       \* Spec, SpecOrganize, SpecUpdate: rows the add form creates
MaxOps == 2         \* the other specifications: operations the user starts
MaxFetches == 1     \* fetches in flight at once (SpecSync, SpecSession: one more)
MaxOrganize == 1    \* SpecOrganize: organize passes the user starts
MaxSends == 2       \* SpecChat: chat messages the user sends

\* ---------------------------------------------------------------- values
Null == "null"                  \* SQL NULL, JS null / undefined
NoPriority == -1                \* priority column NULL (kept an integer)
UserId == "u1"

ContentTypes == {"text", "image", "audio", "url", "ai_image"}

\* What the hosted model can answer to transcribeAudio / summarizeContent /
\* analyzeImage: response.text, a string that may be empty, or undefined.
Transcripts == {"", "transcript", Null}
Summaries == {"", "summary", Null}
Analyses == {"analysis"}

\* JSON.parse(response.text) of categorizeAndTagContent: the tags arrays the
\* model can produce (nothing in the code checks or normalises them).
AiTagLists == {<< >>, <<"a", "a">>}
AiCategories == {"Work"}
UserTags == {"a", "b"}

\* ------------------------------------------------------------- sequences
RECURSIVE SeqToSet(_)
SeqToSet(s) == IF s = << >> THEN {} ELSE {Head(s)} \cup SeqToSet(Tail(s))

NoDup(s) == \A i, j \in 1..Len(s) : s[i] = s[j] => i = j

\* a.indexOf(v): the first index holding v (1-based), 0 when absent
IndexOf(a, v) ==
    IF \E i \in 1..Len(a) : a[i] = v
    THEN CHOOSE i \in 1..Len(a) : a[i] = v /\ \A j \in 1..(i - 1) : a[j] # v
    ELSE 0

RECURSIVE FirstOccurrences(_, _)
\* a.filter((v, i, a) => a.indexOf(v) === i), from index i on
FirstOccurrences(a, i) ==
    IF i > Len(a) THEN << >>
    ELSE (IF IndexOf(a, a[i]) = i THEN <<a[i]>> ELSE << >>)
         \o FirstOccurrences(a, i + 1)

RECURSIVE Reverse(_)
Reverse(s) == IF s = << >> THEN << >> ELSE Reverse(Tail(s)) \o <<Head(s)>>

\* A faulty merge without the filter; C7_StoredTagsHaveNoDuplicates tells
\* it from MergeTags.
MergeTagsKeepingDuplicates(old, new) == old \o new

\* [...(newItem.tags || []), ...tags].filter((v, i, a) => a.indexOf(v) === i)
MergeTags(old, new) == FirstOccurrences(old \o new, 1)

\* ------------------------------------------------------ the row store
\* A row of table content_items (snake_case columns). A column that was
\* never written holds its default: NULL (tags NULL reads as the empty
\* array everywhere in the client: `tags || []`, `tags?.includes`).
DbRow(id, createdAt) ==
    [id |-> id, created_at |-> createdAt, user_id |-> Null, type |-> Null,
     content |-> Null, mime_type |-> Null, category |-> Null,
     priority |-> NoPriority, tags |-> << >>, ai_analysis |-> Null,
     transcription |-> Null, summary |-> Null]

ToColumn(k) ==
    CASE k = "createdAt" -> "created_at"
      [] k = "aiAnalysis" -> "ai_analysis"
      [] k = "mimeType" -> "mime_type"
      [] OTHER -> k

ToField(c) ==
    CASE c = "created_at" -> "createdAt"
      [] c = "ai_analysis" -> "aiAnalysis"
      [] c = "mime_type" -> "mimeType"
      [] OTHER -> c

\* Maps DB snake_case to JS camelCase
fromSupabase(row) == [k \in {ToField(c) : c \in DOMAIN row} |-> row[ToColumn(k)]]

\* Maps JS camelCase to DB snake_case. A key whose value is undefined is a
\* key the record does not have, so it yields no column.
\* a mapping that sends the content column with every statement, null when
\* the item does not supply it
toSupabaseWithContent(item) ==
    [c \in {ToColumn(k) : k \in DOMAIN item} \cup {"content"} |->
        IF ToField(c) \in DOMAIN item THEN item[ToField(c)] ELSE Null]

toSupabase(item) == [c \in {ToColumn(k) : k \in DOMAIN item} |-> item[ToField(c)]]

\* UPDATE/INSERT ... SET: the columns of the statement, the others kept
SetColumns(row, cols) ==
    [c \in DOMAIN row |-> IF c \in DOMAIN cols THEN cols[c] ELSE row[c]]

RowIds(table) == {table[i].id : i \in 1..Len(table)}
RowOf(table, id) == table[CHOOSE i \in 1..Len(table) : table[i].id = id]

\* .from('content_items').insert(itemToAdd): the store assigns id, created_at
InsertRow(table, cols) ==
    Append(table, SetColumns(DbRow(Len(table) + 1, Len(table) + 1), cols))

\* .update(itemToUpdate).eq('id', id)
UpdateWhereId(table, id, cols) ==
    [i \in 1..Len(table) |->
        IF table[i].id = id THEN SetColumns(table[i], cols) ELSE table[i]]

\* A faulty select that misses the newest row;
\* C10_ReadsAfterInsertIncludeCreated tells it from SelectAll.
SelectAllButNewest(table) ==
    IF table = << >> THEN << >>
    ELSE [k \in 1..(Len(table) - 1) |-> [id |-> table[Len(table) - k].id,
                                         createdAt |-> table[Len(table) - k].created_at,
                                         tags |-> table[Len(table) - k].tags,
                                         type |-> table[Len(table) - k].type,
                                         content |-> table[Len(table) - k].content]]

\* .select('*').order('created_at', { ascending: false }), data.map(fromSupabase)
RECURSIVE MapFromSupabase(_)
MapFromSupabase(rows) ==
    IF rows = << >> THEN << >>
    ELSE <<fromSupabase(Head(rows))>> \o MapFromSupabase(Tail(rows))

SelectAll(table) == MapFromSupabase(Reverse(table))

\* updateContentItem: const { id, ...updateData } = updatedItem
UpdateData(updatedItem) == [k \in DOMAIN updatedItem \ {"id"} |-> updatedItem[k]]
updateContentItem(table, updatedItem) ==
    UpdateWhereId(table, updatedItem.id, toSupabase(UpdateData(updatedItem)))

\* --------------------------------------------------------------- state
VARIABLES
    content_items,   \* the remote table, in insertion order
    apiKey,          \* process.env.API_KEY is set
    settingsPage,    \* SettingsPage: the two saves, their flags and messages
    chat,            \* AiChatModal: input, messages, flags and the send in flight
    categorizeCall,  \* a direct call of categorizeAndTagContent, or NoCall
    currentUser,     \* App: the signed-in user, or Null
    contentItems,    \* App: the collection as last delivered
    isLoading,       \* App: content loading flag
    error,           \* App: the user-visible error message
    channel,         \* the number of realtime channels subscribed
    fetches,         \* fetchContentItems calls in flight
    form,            \* AddContentForm state
    addCall,         \* handleAddItem call in flight (one: the form's isLoading)
    pipes,           \* the detached enrichment runs, in spawn order
    cards,           \* ContentCard: the on-demand operation each card awaits
    organize,        \* DashboardPage: handleOrganize in flight
    created,         \* items returned by addContentItem, in order (history)
    userOps          \* operations the user has started (bounded)

vars == <<content_items, apiKey, settingsPage, chat, categorizeCall, currentUser, contentItems, isLoading, error,
          channel, fetches, form, addCall, pipes, cards, organize, created,
          userOps>>

ErrAdd == "Could not add your content. Please try again."
ErrUpdate == "Could not update the content item."
ErrRefresh == "Could not refresh your content. Please try again."
ErrForm == "Failed to add content. Please try again."

NoCall == [pc |-> "idle"]

Init ==
    /\ content_items = << >>
    /\ apiKey \in BOOLEAN
    /\ settingsPage = [profile |-> "idle", isSavingProfile |-> FALSE, profileMessage |-> "",
                       prefs |-> "idle", isSavingPrefs |-> FALSE, prefsMessage |-> ""]
    /\ chat = [input |-> << >>, messages |-> << >>, isLoading |-> FALSE, error |-> "",
               isRecording |-> FALSE, pc |-> "idle"]
    /\ categorizeCall = [pc |-> "idle"]
    /\ currentUser = Null
    /\ contentItems = << >>
    /\ isLoading = TRUE
    /\ error = ""
    /\ channel = 0
    /\ fetches = {}
    /\ form = [inputValue |-> "", file |-> Null, isLoading |-> FALSE, error |-> ""]
    /\ addCall = NoCall
    /\ pipes = << >>
    /\ cards = << >>
    /\ organize = NoCall
    /\ created = << >>
    /\ userOps = 0

\* ------------------------------------------- session and subscription
\* A change of the table reaches the subscribed channel, whose handler
\* starts fetchContentItems().then(callback). Fetches in flight that are
\* in the same phase with the same rows are one element of the set: they
\* deliver the same collection.
SubFetch == [owner |-> "subscription", phase |-> "requested", items |-> << >>]
RefreshFetch == [owner |-> "refresh", phase |-> "requested", items |-> << >>]

Notified(fs) == IF channel > 0 THEN fs \cup {SubFetch} ELSE fs

\* getSession / onAuthStateChange deliver a signed-in user: setCurrentUser,
\* then the content effect: setIsLoading(true), subscribeToContentItems
\* (the initial fetch, the channel).
SignedIn ==
    /\ currentUser = Null
    /\ currentUser' = UserId
    /\ isLoading' = TRUE
    /\ fetches' = fetches \cup {SubFetch}
    /\ channel' = channel + 1
    /\ UNCHANGED <<content_items, apiKey, settingsPage, chat, categorizeCall, contentItems, error, form, addCall,
                   pipes, cards, organize, created, userOps>>

\* UserChanged with the content effect's cleanup left out: the old channel
\* stays subscribed beside the new one.
UserChangedKeepingChannel ==
    /\ currentUser # Null
    /\ isLoading' = TRUE
    /\ fetches' = fetches \cup {SubFetch}
    /\ channel' = channel + 1
    /\ userOps' = userOps + 1
    /\ UNCHANGED <<content_items, apiKey, settingsPage, chat, categorizeCall, currentUser, contentItems, error,
                   form, addCall, pipes, cards, organize, created>>

\* onAuthStateChange without a session (handleLogout's signOut):
\* setCurrentUser(null), setContentItems([]); the content effect's cleanup
\* calls unsubscribe, which removes the channel and nothing else: the
\* fetches in flight keep their continuation. The effect then returns early.
\* Taken with no store call of the add path in flight (such a call would
\* fail on getUserId once the session is gone).
SignedOut ==
    /\ currentUser # Null
    /\ addCall = NoCall
    /\ \A i \in 1..Len(pipes) : pipes[i].pc \in {"done", "failed"}
    /\ currentUser' = Null
    /\ contentItems' = << >>
    /\ channel' = channel - 1
    /\ userOps' = userOps + 1
    /\ UNCHANGED <<content_items, apiKey, settingsPage, chat, categorizeCall, isLoading, error, fetches, form,
                   addCall, pipes, cards, organize, created>>

\* onAuthStateChange with a session while a user is shown: setCurrentUser
\* with a new user object. The content effect's cleanup unsubscribes, then
\* the effect runs again: setIsLoading(true), subscribeToContentItems.
UserChanged ==
    /\ currentUser # Null
    /\ isLoading' = TRUE
    /\ fetches' = fetches \cup {SubFetch}
    /\ channel' = (channel - 1) + 1
    /\ userOps' = userOps + 1
    /\ UNCHANGED <<content_items, apiKey, settingsPage, chat, categorizeCall, currentUser, contentItems, error,
                   form, addCall, pipes, cards, organize, created>>

\* the store runs the select of a fetch in flight
FetchRead(f) ==
    /\ f \in fetches
    /\ f.phase = "requested"
    /\ fetches' = (fetches \ {f})
                    \cup {[f EXCEPT !.phase = "read", !.items = SelectAll(content_items)]}
    /\ UNCHANGED <<content_items, apiKey, settingsPage, chat, categorizeCall, currentUser, contentItems, isLoading,
                   error, channel, form, addCall, pipes, cards, organize, created, userOps>>

\* the result reaches the client: the subscription's callback
\* (setContentItems, setIsLoading(false)) or handleRefresh's continuation
FetchDeliver(f) ==
    /\ f \in fetches
    /\ f.phase = "read"
    /\ fetches' = fetches \ {f}
    /\ contentItems' = f.items
    /\ isLoading' = FALSE
    /\ UNCHANGED <<content_items, apiKey, settingsPage, chat, categorizeCall, currentUser, error, channel, form,
                   addCall, pipes, cards, organize, created, userOps>>

\* the select fails (`if (error) throw error`): the subscription's promise
\* has no rejection handler; handleRefresh catches, sets the error and
\* clears the flag in its finally
FetchFail(f) ==
    /\ f \in fetches
    /\ f.phase = "requested"
    /\ fetches' = fetches \ {f}
    /\ \/ /\ f.owner = "subscription"
          /\ UNCHANGED <<error, isLoading>>
       \/ /\ f.owner = "refresh"
          /\ error' = ErrRefresh
          /\ isLoading' = FALSE
    /\ UNCHANGED <<content_items, apiKey, settingsPage, chat, categorizeCall, currentUser, contentItems, channel,
                   form, addCall, pipes, cards, organize, created, userOps>>

\* handleRefresh (the button is disabled while isLoading)
handleRefresh ==
    /\ currentUser # Null
    /\ ~isLoading
    /\ userOps' = userOps + 1
    /\ isLoading' = TRUE
    /\ fetches' = fetches \cup {RefreshFetch}
    /\ UNCHANGED <<content_items, apiKey, settingsPage, chat, categorizeCall, currentUser, contentItems, error,
                   channel, form, addCall, pipes, cards, organize, created>>

\* ------------------------------------------------- the hosted model
Truthy(x) == x # Null /\ x # ""

\* categorizeAndTagContent up to its request: getAi(), then the switch on
\* item.type. "request" when generateContent is called, else the error
\* thrown before it.
CategorizeUnsupportedAsText(item) ==
    IF ~apiKey THEN "API_KEY environment variable not set"
    ELSE IF item.type \in {"image", "ai_image"}
         THEN (IF ~Truthy(item.mimeType)
               THEN "Mime type is required for image analysis."
               ELSE "request")
         ELSE (IF item.content = Null THEN "TypeError" ELSE "request")

CategorizeRequest(item) ==
    IF ~apiKey THEN "API_KEY environment variable not set"
    ELSE CASE item.type = "text" ->
                \* item.content.substring(0, 2000)
                IF item.content = Null THEN "TypeError" ELSE "request"
           [] item.type \in {"image", "ai_image"} ->
                IF ~Truthy(item.mimeType)
                THEN "Mime type is required for image analysis."
                ELSE "request"
           [] OTHER -> "Unsupported content type for categorization"

\* what JSON.parse(response.text) can be, or the call's failure
Failure == [failed |-> TRUE]
CategorizeResults ==
    {[failed |-> FALSE, category |-> c, tags |-> t] :
        c \in AiCategories, t \in AiTagLists}

\* The objects response.text can hold when the call is made on its own:
\* the schema's fields or some of them, the tags in any number and case.
\* A text that is no JSON makes JSON.parse throw: the call's Failure.
ResponseTagLists == AiTagLists \cup {<<"Urgent">>, <<"a", "b", "c", "d", "e">>}
CategorizeResponses ==
    {[failed |-> FALSE, category |-> c, tags |-> t] :
        c \in AiCategories, t \in ResponseTagLists}
    \cup {[failed |-> FALSE, category |-> c] : c \in AiCategories}
    \cup {[failed |-> FALSE, tags |-> t] : t \in ResponseTagLists}
    \cup {[failed |-> FALSE], Failure}

\* categorizeAndTagContent called on its own with any item: the call up to
\* the request (requests counts the generateContent calls made), the
\* model's answer, and the caller done with the outcome.
CategorizeItems ==
    {[type |-> t, content |-> c, mimeType |-> m] :
        t \in ContentTypes, c \in {Null, "", "typed"}, m \in {Null, "", "image/png"}}

categorizeAndTagContent(item) ==
    /\ categorizeCall.pc = "idle"
    /\ categorizeCall' =
         LET r == CategorizeRequest(item)
         IN IF r = "request"
            THEN [pc |-> "requested", item |-> item, requests |-> 1, error |-> ""]
            ELSE [pc |-> "failed", item |-> item, requests |-> 0, error |-> r]
    /\ UNCHANGED <<content_items, apiKey, settingsPage, chat, currentUser, contentItems, isLoading, error,
                   channel, fetches, form, addCall, pipes, cards, organize, created,
                   userOps>>

CategorizeAnswered(answer) ==
    /\ categorizeCall.pc = "requested"
    /\ categorizeCall' =
         IF answer.failed
         THEN [categorizeCall EXCEPT !.pc = "failed", !.error = "request failed"]
         ELSE [pc |-> "returned", item |-> categorizeCall.item,
               requests |-> categorizeCall.requests, error |-> "",
               result |-> [k \in DOMAIN answer \ {"failed"} |-> answer[k]]]
    /\ UNCHANGED <<content_items, apiKey, settingsPage, chat, currentUser, contentItems, isLoading, error,
                   channel, fetches, form, addCall, pipes, cards, organize, created,
                   userOps>>

CategorizeSettled ==
    /\ categorizeCall.pc \in {"failed", "returned"}
    /\ categorizeCall' = [pc |-> "idle"]
    /\ UNCHANGED <<content_items, apiKey, settingsPage, chat, currentUser, contentItems, isLoading, error,
                   channel, fetches, form, addCall, pipes, cards, organize, created,
                   userOps>>

\* -------------------------------------------- the enrichment pipeline
\* One run of the detached async block of handleAddItem. pc names the call
\* the run awaits; calls lists the gateway and store calls it has made.
NewRun(newItem) ==
    [newItem |-> newItem, pc |-> "spawned", transcription |-> Null,
     summary |-> Null, updatedItem |-> [id |-> newItem.id], calls |-> << >>]

Called(run, name) == [run EXCEPT !.calls = Append(@, name)]
Failed(run) == [run EXCEPT !.pc = "failed"]

\* let contentToAnalyze = { ...newItem }; content and type replaced for
\* audio and url
contentToAnalyze(run, text) ==
    IF run.newItem.type \in {"audio", "url"}
    THEN [run.newItem EXCEPT !.content = text, !.type = "text"]
    ELSE run.newItem

\* await geminiService.categorizeAndTagContent(contentToAnalyze)
CallCategorize(run, text) ==
    LET r == Called(run, "categorizeAndTagContent")
    IN IF CategorizeRequest(contentToAnalyze(run, text)) = "request"
       THEN [r EXCEPT !.pc = "categorize"]
       ELSE Failed(r)

\* A faulty block that works on the id the store will assign next, a row
\* not yet created; C23_CreatePrecedesWriteBack tells it from StartRun.
StartRunOnNextId(newItem) ==
    LET run == NewRun([newItem EXCEPT !.id = @ + 1])
    IN CallCategorize(run, newItem.content)

\* the block up to its first await
StartRun(newItem) ==
    LET run == NewRun(newItem)
    IN CASE newItem.type = "audio" -> [Called(run, "fetch") EXCEPT !.pc = "fetch"]
         [] newItem.type = "url" ->
              IF apiKey
              THEN [Called(run, "summarizeContent") EXCEPT !.pc = "summarize"]
              ELSE Failed(Called(run, "summarizeContent"))
         [] OTHER -> CallCategorize(run, newItem.content)

\* A faulty block that writes the type of its local copy back;
\* C9_IdentityFieldsNeverChange tells it from UpdatedItem.
UpdatedItemWritingType(run, result) ==
    [id |-> run.newItem.id, category |-> result.category,
     tags |-> MergeTags(run.newItem.tags, result.tags),
     type |-> contentToAnalyze(run, "").type]

\* A faulty block that writes its summary variable back whatever the type;
\* C21_WriteBackSuppliesItsFieldsOnly tells it from UpdatedItem.
UpdatedItemWithSummary(run, result) ==
    [id |-> run.newItem.id, category |-> result.category,
     tags |-> MergeTags(run.newItem.tags, result.tags),
     summary |-> run.summary]

\* updatedItem: id, category, merged tags; transcription / summary
\* `if (transcription)`, `if (summary)`
UpdatedItem(run, result) ==
    LET base == [id |-> run.newItem.id, category |-> result.category,
                 tags |-> MergeTags(run.newItem.tags, result.tags)]
        t == IF Truthy(run.transcription)
             THEN [transcription |-> run.transcription] ELSE << >>
        u == IF Truthy(run.summary) THEN [summary |-> run.summary] ELSE << >>
    IN [k \in DOMAIN base \cup DOMAIN t \cup DOMAIN u |->
          IF k \in DOMAIN base THEN base[k]
          ELSE IF k \in DOMAIN t THEN t[k] ELSE u[k]]

\* ---------------------------------------- AddContentForm, handleAddItem
IdleForm == [inputValue |-> "", file |-> Null, isLoading |-> FALSE, error |-> ""]

\* what the user has typed or picked when the form is submitted
Tabs == {"text", "url", "ai_image", "file"}
Inputs == {"", "typed"}
Files == {Null, "image/png", "audio/webm"}

\* the draft handleSubmit hands to onAdd
Draft(tab, input, file) ==
    CASE tab \in {"text", "url"} -> [type |-> tab, content |-> input]
      [] tab = "ai_image" ->
           [type |-> "ai_image", content |-> "data:image/png;base64,generated",
            mimeType |-> "image/png"]
      [] OTHER ->
           [type |-> IF file = "image/png" THEN "image" ELSE "audio",
            content |-> "data:" \o file, mimeType |-> file]

\* handleSubmit up to its first await. A blank input returns at once, a
\* file tab without a file falls through to the clearing of the input.
handleSubmit(tab, input, file) ==
    /\ currentUser # Null
    /\ ~form.isLoading
    /\ addCall = NoCall
    /\ IF tab = "file" THEN input = "" ELSE file = Null
    /\ \/ /\ tab # "file"
          /\ input = ""
          /\ form' = [form EXCEPT !.error = "", !.inputValue = input, !.file = Null]
          /\ UNCHANGED addCall
       \/ /\ tab = "file"
          /\ file = Null
          /\ form' = IdleForm
          /\ UNCHANGED addCall
       \/ /\ tab = "ai_image"
          /\ input # ""
          /\ IF apiKey
             THEN /\ form' = [inputValue |-> input, file |-> Null,
                              isLoading |-> TRUE, error |-> ""]
                  /\ addCall' = [pc |-> "generating"]
             ELSE /\ form' = [inputValue |-> input, file |-> Null,
                              isLoading |-> FALSE, error |-> ErrForm]
                  /\ UNCHANGED addCall
       \/ /\ \/ tab \in {"text", "url"} /\ input # ""
             \/ tab = "file" /\ file # Null
          /\ form' = [inputValue |-> input, file |-> file, isLoading |-> TRUE,
                      error |-> ""]
          /\ addCall' = [pc |-> "inserting", itemData |-> Draft(tab, input, file)]
    /\ UNCHANGED <<content_items, apiKey, settingsPage, chat, categorizeCall, currentUser, contentItems, isLoading,
                   error, channel, fetches, pipes, cards, organize, created, userOps>>

\* generateImage answers: onAdd with the image, or the form's catch
GenerateImageDone(ok) ==
    /\ addCall.pc = "generating"
    /\ IF ok
       THEN /\ addCall' = [pc |-> "inserting", itemData |-> Draft("ai_image", "", Null)]
            /\ UNCHANGED form
       ELSE /\ addCall' = NoCall
            /\ form' = [form EXCEPT !.isLoading = FALSE, !.error = ErrForm]
    /\ UNCHANGED <<content_items, apiKey, settingsPage, chat, categorizeCall, currentUser, contentItems, isLoading,
                   error, channel, fetches, pipes, cards, organize, created, userOps>>

\* addContentItem: the store inserts { ...toSupabase(item), user_id } and
\* returns the row (.select().single())
StoreInsert ==
    /\ addCall.pc = "inserting"
    /\ LET cols == toSupabase(addCall.itemData)
           itemToAdd == [c \in DOMAIN cols \cup {"user_id"} |->
                           IF c = "user_id" THEN currentUser ELSE cols[c]]
           table == InsertRow(content_items, itemToAdd)
       IN /\ content_items' = table
          /\ addCall' = [pc |-> "inserted", data |-> table[Len(table)]]
    /\ fetches' = Notified(fetches)
    /\ UNCHANGED <<apiKey, settingsPage, chat, categorizeCall, currentUser, contentItems, isLoading, error, channel,
                   form, pipes, cards, organize, created, userOps>>

\* handleAddItem resumes with newItem: the detached block runs to its first
\* await, handleAddItem returns, handleSubmit clears the input
AddReturned ==
    /\ addCall.pc = "inserted"
    /\ LET newItem == fromSupabase(addCall.data)
       IN /\ created' = Append(created, newItem)
          /\ pipes' = Append(pipes, StartRun(newItem))
    /\ addCall' = NoCall
    /\ form' = IdleForm
    /\ UNCHANGED <<content_items, apiKey, settingsPage, chat, categorizeCall, currentUser, contentItems, isLoading,
                   error, channel, fetches, cards, organize, userOps>>

\* A faulty handleAddItem that starts the detached block although the
\* create failed; C1_OneRunPerSuccessfulCreate tells it from AddFailed.
AddFailedStartingRun ==
    /\ addCall.pc = "inserting"
    /\ error' = ErrAdd
    /\ addCall' = NoCall
    /\ form' = IdleForm
    /\ pipes' = Append(pipes, NewRun([id |-> Len(content_items) + 1,
                                      type |-> addCall.itemData.type]))
    /\ UNCHANGED <<content_items, apiKey, settingsPage, chat, categorizeCall, currentUser, contentItems,
                   isLoading, channel, fetches, cards, organize, created, userOps>>

\* getUserId or the insert fails: handleAddItem's catch sets the error and
\* returns normally, so handleSubmit clears the input all the same
AddFailed ==
    /\ addCall.pc = "inserting"
    /\ error' = ErrAdd
    /\ addCall' = NoCall
    /\ form' = IdleForm
    /\ UNCHANGED <<content_items, apiKey, settingsPage, chat, categorizeCall, currentUser, contentItems, isLoading,
                   channel, fetches, pipes, cards, organize, created, userOps>>

\* ------------------------------------------------------- ContentCard
\* The card of an item renders the item of contentItems with that id; its
\* handlers read that item, not the store.
Shown(id) == \E k \in 1..Len(contentItems) : contentItems[k].id = id
Item(id) == contentItems[CHOOSE k \in 1..Len(contentItems) : contentItems[k].id = id]

CardFrame == <<apiKey, settingsPage, chat, categorizeCall, currentUser, contentItems, isLoading, channel, form,
               addCall, pipes, organize, created>>

\* handleUpdateItem: await updateContentItem(item), the catch sets the error.
\* The statement matches no row (.single() fails) or is rejected when ~ok.
handleUpdateItem(item, ok) ==
    IF ok /\ item.id \in RowIds(content_items)
    THEN /\ content_items' = updateContentItem(content_items, item)
         /\ fetches' = Notified(fetches)
         /\ UNCHANGED error
    ELSE /\ error' = ErrUpdate
         /\ UNCHANGED <<content_items, fetches>>

\* handleUpdateItem called on its own with any partial item: the fields
\* supplied are any of summary and tags, the id one of the rows' or one
\* that no row has.
UpdateFields == [summary |-> "summary", tags |-> <<"a">>]
Partials ==
    {[k \in {"id"} \cup K |-> IF k = "id" THEN id ELSE UpdateFields[k]] :
        K \in SUBSET DOMAIN UpdateFields, id \in 1..(MaxItems + 1)}

UpdateItemCalled(item, ok) ==
    /\ handleUpdateItem(item, ok)
    /\ userOps' = userOps + 1
    /\ UNCHANGED <<cards>>
    /\ UNCHANGED CardFrame

\* tagInput.trim().toLowerCase() of what the user can type
TagInputs == {"A", " b ", " "}
NormalizeTag(input) ==
    CASE input = "A" -> "a"
      [] input = " b " -> "b"
      [] input = " " -> ""
      [] OTHER -> input

Includes(s, v) == \E k \in 1..Len(s) : s[k] = v

\* A faulty handleAddTag that sends the new tag alone;
\* C8_TagWritesExtendWhatTheWriterRead tells it from handleAddTag.
handleAddTagAlone(id, input, ok) ==
    /\ Shown(id)
    /\ NormalizeTag(input) # ""
    /\ userOps' = userOps + 1
    /\ IF ~Includes(Item(id).tags, NormalizeTag(input))
       THEN handleUpdateItem([id |-> id, tags |-> <<NormalizeTag(input)>>], ok)
       ELSE UNCHANGED <<content_items, fetches, error>>
    /\ UNCHANGED cards
    /\ UNCHANGED CardFrame

\* handleAddTag on Enter
handleAddTag(id, input, ok) ==
    /\ Shown(id)
    /\ NormalizeTag(input) # ""
    /\ userOps' = userOps + 1
    /\ LET newTag == NormalizeTag(input)
           item == Item(id)
       IN IF ~Includes(item.tags, newTag)
          THEN handleUpdateItem([id |-> id, tags |-> Append(item.tags, newTag)], ok)
          ELSE UNCHANGED <<content_items, fetches, error>>
    /\ UNCHANGED cards
    /\ UNCHANGED CardFrame

\* item.tags.filter(tag => tag !== tagToRemove)
Without(s, v) == SelectSeq(s, LAMBDA t : t # v)

\* handleRemoveTag: the button of a tag the card shows
handleRemoveTag(id, tagToRemove, ok) ==
    /\ Shown(id)
    /\ Includes(Item(id).tags, tagToRemove)
    /\ userOps' = userOps + 1
    /\ handleUpdateItem([id |-> id, tags |-> Without(Item(id).tags, tagToRemove)], ok)
    /\ UNCHANGED cards
    /\ UNCHANGED CardFrame

\* handleSaveEdit: the editor is offered for text items
Edits == {"typed", "edited"}
handleSaveEdit(id, editedContent, ok) ==
    /\ Shown(id)
    /\ Item(id).type = "text"
    /\ userOps' = userOps + 1
    /\ IF Item(id).content # editedContent
       THEN handleUpdateItem([id |-> id, content |-> editedContent], ok)
       ELSE UNCHANGED <<content_items, fetches, error>>
    /\ UNCHANGED cards
    /\ UNCHANGED CardFrame

\* The card's on-demand operations. A card awaits one at a time (its
\* loader covers it while isLoading); a card with no entry is idle.
CardOf(id) == IF id \in DOMAIN cards THEN cards[id] ELSE [pc |-> "idle", error |-> ""]
SetCard(id, card) ==
    [k \in DOMAIN cards \cup {id} |-> IF k = id THEN card ELSE cards[k]]
CardIdle(id) == CardOf(id).pc = "idle"

\* the button pressed: Analyze, Transcribe, Edit or Summarize, as rendered
\* for the item shown, and the handler's own type check
Offered(op, item) ==
    CASE op = "analyze" -> item.type \in {"image", "ai_image"} /\ ~Truthy(item.aiAnalysis)
      [] op = "transcribe" -> item.type = "audio" /\ ~Truthy(item.transcription)
      [] op = "edit" -> item.type \in {"image", "ai_image"}
      [] op = "summarize" ->
           item.type \in {"text", "audio", "url"} /\ ~Truthy(item.summary)
      [] OTHER -> FALSE

CardOps == {"analyze", "transcribe", "edit", "summarize"}

\* the handler up to its first await: setIsLoading(true), setError(''), the
\* gateway call (getAi() throws without a key: the catch, the finally)
CardStart(id, op) ==
    /\ Shown(id)
    /\ CardIdle(id)
    /\ Offered(op, Item(id))
    /\ userOps' = userOps + 1
    /\ LET item == Item(id)
           first == IF op = "summarize" /\ item.type = "audio"
                       /\ ~Truthy(item.transcription)
                    THEN "summarize_transcribe" ELSE op
           needsKeyNow == ~(item.type = "audio" /\ first # "summarize")
       IN cards' = SetCard(id,
                     IF ~apiKey /\ needsKeyNow
                     THEN [pc |-> "idle", error |-> "Failed: " \o op]
                     ELSE [pc |-> first, error |-> "", type |-> item.type,
                           generatedTranscription |-> Null])
    /\ UNCHANGED <<content_items, fetches, error>>
    /\ UNCHANGED CardFrame

\* the awaited call fails: the catch sets the card's error, the finally
\* clears isLoading
CardFailed(id) ==
    /\ ~CardIdle(id)
    /\ cards' = SetCard(id, [pc |-> "idle", error |-> "Failed: " \o
                               (IF cards[id].pc = "summarize_transcribe"
                                THEN "summarize" ELSE cards[id].pc)])
    /\ UNCHANGED <<content_items, fetches, error, userOps>>
    /\ UNCHANGED CardFrame

\* handleSummarize of an audio item without transcription: the audio is
\* fetched and transcribed, then summarizeContent is called
CardTranscribedForSummary(id, text) ==
    /\ CardOf(id).pc = "summarize_transcribe"
    /\ cards' = SetCard(id,
                  IF apiKey
                  THEN [cards[id] EXCEPT !.pc = "summarize",
                                         !.generatedTranscription = text]
                  ELSE [pc |-> "idle", error |-> "Failed: summarize"])
    /\ UNCHANGED <<content_items, fetches, error, userOps>>
    /\ UNCHANGED CardFrame

\* the update each operation hands to onUpdate with the model's answer
CardUpdate(id, card, text) ==
    CASE card.pc = "analyze" -> [id |-> id, aiAnalysis |-> text]
      [] card.pc = "transcribe" -> [id |-> id, transcription |-> text]
      [] card.pc = "edit" ->
           [id |-> id, content |-> "data:image/png;base64," \o text,
            mimeType |-> "image/png"]
      [] OTHER ->
           IF Truthy(card.generatedTranscription)
           THEN [id |-> id, summary |-> text,
                 transcription |-> card.generatedTranscription]
           ELSE [id |-> id, summary |-> text]

\* the awaited call answers: onUpdate(...) is called (not awaited) and the
\* finally clears isLoading; transcribeAudio of handleTranscribe needs the key
CardAnswered(id, text, ok) ==
    /\ CardOf(id).pc \in CardOps
    /\ IF cards[id].pc = "transcribe" /\ ~apiKey
       THEN /\ cards' = SetCard(id, [pc |-> "idle", error |-> "Failed: transcribe"])
            /\ UNCHANGED <<content_items, fetches, error>>
       ELSE /\ cards' = SetCard(id, [pc |-> "idle", error |-> ""])
            /\ handleUpdateItem(CardUpdate(id, cards[id], text), ok)
    /\ UNCHANGED userOps
    /\ UNCHANGED CardFrame

\* --------------------------------------------- DashboardPage organize
\* A value of the parsed JSON answer: a string, a number, or null/missing.
JStr(v) == [t |-> "string", v |-> v]
JNum(n) == [t |-> "number", n |-> n]
JNull == [t |-> "null"]

\* parseInt(s, 10) of the strings the answer is drawn from: <<n>>, or
\* << >> for NaN
ParseIntOf(s) ==
    CASE s = "4" -> <<4>>
      [] s = "7" -> <<7>>
      [] s = "3.9" -> <<3>>
      [] OTHER -> << >>

\* priority of an update: parseInt(String(item.priority), 10), left
\* undefined (<< >>) for null, undefined and NaN
ParsedPriority(p) ==
    CASE p.t = "number" -> <<p.n>>
      [] p.t = "string" -> ParseIntOf(p.v)
      [] OTHER -> << >>

\* one element of result.organizedItems mapped to an update; a key whose
\* value is undefined is a key the update lacks
OrganizeUpdate(entry) ==
    LET pr == ParsedPriority(entry.priority)
        keys == {"id"} \cup (IF entry.category.t = "string" THEN {"category"} ELSE {})
                       \cup (IF pr # << >> THEN {"priority"} ELSE {})
    IN [k \in keys |->
          CASE k = "id" -> entry.id
            [] k = "category" -> entry.category.v
            [] OTHER -> pr[1]]

RECURSIVE OrganizeUpdates(_)
\* .map(...).filter(item => typeof item.id === 'string'), the id unwrapped
OrganizeUpdates(entries) ==
    IF entries = << >> THEN << >>
    ELSE LET u == OrganizeUpdate(Head(entries))
         IN (IF u.id.t = "string" THEN <<[u EXCEPT !.id = u.id.v]>> ELSE << >>)
            \o OrganizeUpdates(Tail(entries))

RECURSIVE UpsertByPosition(_, _)
\* an upsert that pairs the k-th update with the k-th row
UpsertByPosition(table, updates) ==
    IF updates = << >> \/ table = << >> THEN table
    ELSE <<SetColumns(Head(table), [c \in DOMAIN toSupabase(Head(updates)) \ {"id"} |->
                                      toSupabase(Head(updates))[c]])>>
         \o UpsertByPosition(Tail(table), Tail(updates))

RECURSIVE Upsert(_, _)
\* .upsert(updates): a row with the id takes the update's columns, an id
\* the table lacks is inserted as a new row
Upsert(table, updates) ==
    IF updates = << >> THEN table
    ELSE LET u == toSupabase(Head(updates))
             t == IF u.id \in RowIds(table)
                  THEN UpdateWhereId(table, u.id, u)
                  ELSE Append(table, SetColumns(DbRow(u.id, Len(table) + 1), u))
         IN Upsert(t, Tail(updates))

ErrOrganize == "AI organization failed"

OrganizeFrame == <<apiKey, settingsPage, chat, categorizeCall, currentUser, contentItems, isLoading, channel, form,
                   addCall, pipes, cards, created>>

\* handleOrganize up to its await: setIsOrganizing(true), setError(''),
\* organizeContent(itemsToOrganize), whose getAi() throws without a key
handleOrganize ==
    /\ currentUser # Null
    /\ organize = NoCall
    /\ userOps' = userOps + 1
    /\ IF apiKey
       THEN /\ organize' = [pc |-> "organizing",
                             ids |-> {contentItems[k].id : k \in 1..Len(contentItems)}]
            /\ error' = ""
       ELSE /\ organize' = NoCall
            /\ error' = ErrOrganize
    /\ UNCHANGED <<content_items, fetches>>
    /\ UNCHANGED OrganizeFrame

\* organizeContent answers: the updates are built and, when there are any,
\* updateMultipleContentItems(updates) is called
OrganizeAnswered(result) ==
    /\ organize.pc = "organizing"
    /\ IF result = Failure
       THEN /\ organize' = NoCall
            /\ error' = ErrOrganize
       ELSE /\ LET updates == IF result.isArray
                              THEN OrganizeUpdates(result.organizedItems)
                              ELSE << >>
               IN organize' = IF Len(updates) > 0
                              THEN [pc |-> "upserting", ids |-> organize.ids,
                                    updates |-> updates]
                              ELSE NoCall
            /\ UNCHANGED error
    /\ UNCHANGED <<content_items, fetches, userOps>>
    /\ UNCHANGED OrganizeFrame

\* the store runs the upsert, or rejects it (a constraint of the table on
\* a row to insert, the network): the catch sets the error
OrganizeUpserted(ok) ==
    /\ organize.pc = "upserting"
    /\ IF ok
       THEN /\ content_items' = Upsert(content_items, organize.updates)
            /\ fetches' = Notified(fetches)
            /\ UNCHANGED error
       ELSE /\ error' = ErrOrganize
            /\ UNCHANGED <<content_items, fetches>>
    /\ organize' = NoCall
    /\ UNCHANGED userOps
    /\ UNCHANGED OrganizeFrame

\* ------------------------------------------------------ SettingsPage
MsgProfileSaved == "Profile updated successfully!"
MsgProfileFailed == "Failed to update profile."
MsgPrefsSaved == "Preferences saved!"
MsgPrefsFailed == "Failed to save preferences."

SettingsFrame == <<content_items, apiKey, chat, categorizeCall, contentItems, error, form, addCall,
                   pipes, cards, organize, created>>

\* handleProfileSubmit up to its await: setIsSavingProfile(true),
\* setProfileMessage(''), updateUser(...)
handleProfileSubmit ==
    /\ currentUser # Null
    /\ settingsPage.profile = "idle"
    /\ settingsPage' = [settingsPage EXCEPT !.profile = "saving",
                                            !.isSavingProfile = TRUE,
                                            !.profileMessage = ""]
    /\ userOps' = userOps + 1
    /\ UNCHANGED <<currentUser, isLoading, channel, fetches>>
    /\ UNCHANGED SettingsFrame

\* updateUser fails and the finally forgets the flag: the mutation of
\* ProfileSaved
ProfileSavedKeepingFlag(ok) ==
    /\ settingsPage.profile = "saving"
    /\ settingsPage' = [settingsPage EXCEPT !.profile = "idle",
                                            !.isSavingProfile = ~ok,
                                            !.profileMessage =
                                                IF ok THEN MsgProfileSaved ELSE ""]
    /\ UNCHANGED <<currentUser, isLoading, channel, fetches, userOps>>
    /\ UNCHANGED SettingsFrame

\* updateUser answers. On success onUserUpdate(updatedUser) is
\* setCurrentUser with a new user object, so the content effect runs its
\* cleanup and subscribes again; on failure the catch sets the message. The
\* finally clears the flag.
ProfileSaved(ok) ==
    /\ settingsPage.profile = "saving"
    /\ settingsPage' = [settingsPage EXCEPT !.profile = "idle",
                                            !.isSavingProfile = FALSE,
                                            !.profileMessage =
                                                IF ok THEN MsgProfileSaved
                                                ELSE MsgProfileFailed]
    /\ IF ok /\ currentUser # Null
       THEN /\ isLoading' = TRUE
            /\ fetches' = fetches \cup {SubFetch}
            /\ channel' = (channel - 1) + 1
       ELSE UNCHANGED <<isLoading, fetches, channel>>
    /\ UNCHANGED <<currentUser, userOps>>
    /\ UNCHANGED SettingsFrame

\* a preference is changed: the effect finds preferences different from
\* settings and runs updateSettings up to its await
updateSettings ==
    /\ currentUser # Null
    /\ settingsPage.prefs = "idle"
    /\ settingsPage' = [settingsPage EXCEPT !.prefs = "saving", !.isSavingPrefs = TRUE]
    /\ userOps' = userOps + 1
    /\ UNCHANGED <<currentUser, isLoading, channel, fetches>>
    /\ UNCHANGED SettingsFrame

\* updateUserSettings answers: onSettingsUpdate and the message, or the
\* catch's message; the finally clears the flag
PrefsSaved(ok) ==
    /\ settingsPage.prefs = "saving"
    /\ settingsPage' = [settingsPage EXCEPT !.prefs = "idle",
                                            !.isSavingPrefs = FALSE,
                                            !.prefsMessage =
                                                IF ok THEN MsgPrefsSaved ELSE MsgPrefsFailed]
    /\ UNCHANGED <<currentUser, isLoading, channel, fetches, userOps>>
    /\ UNCHANGED SettingsFrame

\* the timers of the two finally blocks: setTimeout(() => set...Message(''), 2000)
MessageCleared(which) ==
    /\ settingsPage[which] # ""
    /\ settingsPage' = [settingsPage EXCEPT ![which] = ""]
    /\ UNCHANGED <<currentUser, isLoading, channel, fetches, userOps>>
    /\ UNCHANGED SettingsFrame

\* ------------------------------------------------------- AiChatModal
\* App renders the modal only for a signed-in user. The text of the input
\* box is a sequence of characters, so that trim() has something to strip.
ChatApology == "Sorry, I encountered an error. Please try again."
ErrChat == "Failed to get response."
ChatInputs == {<< >>, <<" ">>, <<"h", "i">>, <<" ", "y", "o", " ">>}
ChatTexts == {"answer", "reply"}

RECURSIVE trimStart(_)
trimStart(s) == IF s # << >> /\ Head(s) = " " THEN trimStart(Tail(s)) ELSE s

\* String.prototype.trim over the characters of the input
trim(s) == Reverse(trimStart(Reverse(trimStart(s))))

ChatFrame == <<content_items, apiKey, settingsPage, categorizeCall, currentUser, contentItems,
               isLoading, error, channel, fetches, form, addCall, pipes, cards, organize,
               created, userOps>>

\* onChange of the input box, which is disabled while a send is in progress
setInput(text) ==
    /\ currentUser # Null
    /\ ~chat.isLoading
    /\ chat.input # text
    /\ chat' = [chat EXCEPT !.input = text]
    /\ UNCHANGED ChatFrame

\* The microphone button, disabled while a send is in progress: it stops a
\* running recognition (onend), or clears the input and starts one (onstart).
handleMicClick ==
    /\ currentUser # Null
    /\ ~chat.isLoading
    /\ chat' = IF chat.isRecording
               THEN [chat EXCEPT !.isRecording = FALSE]
               ELSE [chat EXCEPT !.input = << >>, !.isRecording = TRUE]
    /\ UNCHANGED ChatFrame

\* recognition.onresult: a running recognition replaces the input with its
\* transcript, whether or not a send is in progress.
onresult(transcript) ==
    /\ chat.isRecording
    /\ chat.input # transcript
    /\ chat' = [chat EXCEPT !.input = transcript]
    /\ UNCHANGED ChatFrame

\* A faulty handleSend that does not look at the loading flag;
\* C30_ChatSendsPairUp tells it from handleSend.
handleSendWhileLoading ==
    /\ currentUser # Null
    /\ trim(chat.input) # << >>
    /\ chat' = [chat EXCEPT !.messages = Append(@, [role |-> "user", text |-> chat.input]),
                            !.input = << >>, !.isLoading = TRUE, !.error = "",
                            !.pc = "locating"]
    /\ UNCHANGED ChatFrame

\* handleSend up to its first await: a blank input or a send in progress
\* returns at once and changes nothing.
handleSend ==
    /\ currentUser # Null
    /\ trim(chat.input) # << >>
    /\ ~chat.isLoading
    /\ chat' = [chat EXCEPT !.messages = Append(@, [role |-> "user", text |-> chat.input]),
                            !.input = << >>, !.isLoading = TRUE, !.error = "",
                            !.pc = "locating"]
    /\ UNCHANGED ChatFrame

\* getCurrentPosition resolves or rejects (or times out); the rejection is
\* caught and the send goes on without a location.
ChatLocated ==
    /\ chat.pc = "locating"
    /\ chat' = [chat EXCEPT !.pc = "asking"]
    /\ UNCHANGED ChatFrame

\* getChatResponse resolves: the model message is appended, then finally.
ChatAnswered(text) ==
    /\ chat.pc = "asking"
    /\ apiKey
    /\ chat' = [chat EXCEPT !.messages = Append(@, [role |-> "model", text |-> text]),
                            !.isLoading = FALSE, !.pc = "idle"]
    /\ UNCHANGED ChatFrame

\* getChatResponse rejects (no API key, or the request fails): catch appends
\* the apology and sets the error, then finally.
ChatFailed ==
    /\ chat.pc = "asking"
    /\ chat' = [chat EXCEPT !.messages = Append(@, [role |-> "model", text |-> ChatApology]),
                            !.error = ErrChat, !.isLoading = FALSE, !.pc = "idle"]
    /\ UNCHANGED ChatFrame

\* ------------------------------------------------ the pipeline's steps
Awaiting(i, pc) == i \in 1..Len(pipes) /\ pipes[i].pc = pc

PipeFrame == <<apiKey, settingsPage, chat, categorizeCall, currentUser, contentItems, isLoading, error, channel,
               form, addCall, cards, organize, created, userOps>>

\* A faulty block whose failed fetch reaches handleAddItem's outer catch;
\* C2_Detached tells it from PipeFetched.
PipeFetchedFailingAdd(i, ok) ==
    /\ Awaiting(i, "fetch")
    /\ pipes' = [pipes EXCEPT ![i] =
                   LET r == Called(@, "transcribeAudio")
                   IN IF ok /\ apiKey THEN [r EXCEPT !.pc = "transcribe"]
                      ELSE IF ok THEN Failed(r) ELSE Failed(@)]
    /\ error' = IF ok THEN error ELSE ErrAdd
    /\ UNCHANGED <<content_items, fetches, apiKey, settingsPage, chat, categorizeCall, currentUser,
                   contentItems, isLoading, channel, form, addCall, cards, organize,
                   created, userOps>>

\* fetch(newItem.content), response.blob(): then transcribeAudio(file),
\* whose getAi() throws without a key
PipeFetched(i, ok) ==
    /\ Awaiting(i, "fetch")
    /\ pipes' = [pipes EXCEPT ![i] =
                   LET r == Called(@, "transcribeAudio")
                   IN IF ok /\ apiKey THEN [r EXCEPT !.pc = "transcribe"]
                      ELSE IF ok THEN Failed(r) ELSE Failed(@)]
    /\ UNCHANGED <<content_items, fetches>>
    /\ UNCHANGED PipeFrame

\* transcribeAudio answers response.text, or fails
PipeTranscribed(i, answer) ==
    /\ Awaiting(i, "transcribe")
    /\ pipes' = [pipes EXCEPT ![i] =
                   IF answer = Failure THEN Failed(@)
                   ELSE CallCategorize([@ EXCEPT !.transcription = answer.text],
                                       answer.text)]
    /\ UNCHANGED <<content_items, fetches>>
    /\ UNCHANGED PipeFrame

\* summarizeContent(newItem.content, 'url') answers response.text, or fails
PipeSummarized(i, answer) ==
    /\ Awaiting(i, "summarize")
    /\ pipes' = [pipes EXCEPT ![i] =
                   IF answer = Failure THEN Failed(@)
                   ELSE CallCategorize([@ EXCEPT !.summary = answer.text],
                                       answer.text)]
    /\ UNCHANGED <<content_items, fetches>>
    /\ UNCHANGED PipeFrame

\* categorizeAndTagContent answers: updatedItem is built and
\* updateContentItem(updatedItem) is called
PipeCategorized(i, answer) ==
    /\ Awaiting(i, "categorize")
    /\ pipes' = [pipes EXCEPT ![i] =
                   IF answer = Failure THEN Failed(pipes[i])
                   ELSE [Called(pipes[i], "updateContentItem") EXCEPT
                           !.pc = "update",
                           !.updatedItem = UpdatedItem(pipes[i], answer)]]
    /\ UNCHANGED <<content_items, fetches>>
    /\ UNCHANGED PipeFrame

\* A store that applies a run's update only to a row nobody has written
\* since the create (a version check);
\* C22_EditAndWriteBackOverwriteUnchecked tells it from PipeUpdated.
PipeUpdatedIfUnwritten(i) ==
    /\ Awaiting(i, "update")
    /\ pipes[i].updatedItem.id \in RowIds(content_items)
    /\ IF fromSupabase(RowOf(content_items, pipes[i].updatedItem.id)) = pipes[i].newItem
       THEN /\ content_items' = updateContentItem(content_items, pipes[i].updatedItem)
            /\ fetches' = Notified(fetches)
            /\ pipes' = [pipes EXCEPT ![i] = [@ EXCEPT !.pc = "done"]]
       ELSE /\ pipes' = [pipes EXCEPT ![i] = Failed(@)]
            /\ UNCHANGED <<content_items, fetches>>
    /\ UNCHANGED PipeFrame

\* the store applies the run's update and the run ends
PipeUpdated(i) ==
    /\ Awaiting(i, "update")
    /\ pipes[i].updatedItem.id \in RowIds(content_items)
    /\ content_items' = updateContentItem(content_items, pipes[i].updatedItem)
    /\ fetches' = Notified(fetches)
    /\ pipes' = [pipes EXCEPT ![i] = [@ EXCEPT !.pc = "done"]]
    /\ UNCHANGED PipeFrame

\* A faulty store that applies the update it rejects;
\* C6_FailedRunWritesNothing tells it from PipeUpdateFailed.
PipeUpdateAppliedThenFailed(i) ==
    /\ Awaiting(i, "update")
    /\ pipes[i].updatedItem.id \in RowIds(content_items)
    /\ content_items' = updateContentItem(content_items, pipes[i].updatedItem)
    /\ pipes' = [pipes EXCEPT ![i] = Failed(@)]
    /\ UNCHANGED fetches
    /\ UNCHANGED PipeFrame

\* A faulty block that issues the rejected update again;
\* C24_RunNeverReattempts tells it from PipeUpdateFailed.
PipeUpdateFailedRetrying(i) ==
    /\ Awaiting(i, "update")
    /\ pipes' = [pipes EXCEPT ![i] = Called(@, "updateContentItem")]
    /\ UNCHANGED <<content_items, fetches>>
    /\ UNCHANGED PipeFrame

\* the update is rejected (`if (error) throw error`): the block's catch logs
PipeUpdateFailed(i) ==
    /\ Awaiting(i, "update")
    /\ pipes' = [pipes EXCEPT ![i] = Failed(@)]
    /\ UNCHANGED <<content_items, fetches>>
    /\ UNCHANGED PipeFrame

\* ------------------------------------------------------ environment
\* One answer of organizeContent per requested id, in request order, or an
\* answer that is no array.
OrganizedEntry(id) == [id |-> JStr(id), category |-> JStr("Urgent"), priority |-> JNum(3)]

RECURSIVE SetToSeq(_)
SetToSeq(S) ==
    IF S = {} THEN << >>
    ELSE LET x == CHOOSE y \in S : \A z \in S : y <= z
         IN <<x>> \o SetToSeq(S \ {x})

RECURSIVE MapEntries(_)
MapEntries(ids) ==
    IF ids = << >> THEN << >>
    ELSE <<OrganizedEntry(Head(ids))>> \o MapEntries(Tail(ids))

OrganizeResults(ids) ==
    {[failed |-> FALSE, isArray |-> TRUE, organizedItems |-> MapEntries(SetToSeq(S))] :
        S \in SUBSET ids}
    \cup {[failed |-> FALSE, isArray |-> FALSE, organizedItems |-> << >>], Failure}

\* the elements organizedItems can hold for an id sent: the category a
\* string or null, the priority an integer inside or outside 1..5 or a
\* word
OrganizeEntries(id) ==
    {[id |-> JStr(id), category |-> JStr("Urgent"), priority |-> JNum(3)],
     [id |-> JStr(id), category |-> JStr("Urgent"), priority |-> JNum(9)],
     [id |-> JStr(id), category |-> JNull, priority |-> JStr("high")]}

RECURSIVE EntryLists(_)
EntryLists(ids) ==
    IF ids = << >> THEN {<< >>}
    ELSE {<<e>> \o rest : e \in OrganizeEntries(Head(ids)), rest \in EntryLists(Tail(ids))}

OrganizeAnswers(ids) ==
    {[failed |-> FALSE, isArray |-> TRUE, organizedItems |-> entries] :
        entries \in UNION {EntryLists(SetToSeq(S)) : S \in SUBSET ids}}
    \cup {[failed |-> FALSE, isArray |-> FALSE, organizedItems |-> << >>], Failure}

\* answers whose one element names any id, sent or not: nothing ties the
\* ids of the answer to those of the request
AnyIdAnswers ==
    {[failed |-> FALSE, isArray |-> TRUE, organizedItems |-> <<OrganizedEntry(id)>>] :
        id \in 1..(MaxItems + 1)}

\* no more fetches in flight than max once the change is notified
Room(max) == Cardinality(Notified(fetches)) <= max

TextAnswers(texts) == {[failed |-> FALSE, text |-> t] : t \in texts}

\* the answers the gateways can give a run
FetchAnswers == BOOLEAN
TranscribeAnswers == TextAnswers(Transcripts) \cup {Failure}
SummarizeAnswers == TextAnswers(Summaries) \cup {Failure}
CategorizeAnswers == CategorizeResults \cup {Failure}

\* ------------------------------------------------------ specifications
\* Spec: the add form, handleAddItem and the enrichment runs it detaches,
\* with every answer the gateways can give. The runs read nothing of the
\* App's collection state, which is left out of the steps.
Next ==
    \/ SignedIn
    \/ /\ Len(content_items) < MaxItems
       /\ \E tab \in Tabs, input \in Inputs, file \in Files : handleSubmit(tab, input, file)
    \/ \E ok \in BOOLEAN : GenerateImageDone(ok)
    \/ StoreInsert
    \/ AddReturned
    \/ AddFailed
    \/ \E i \in 1..Len(pipes), ok \in FetchAnswers : PipeFetched(i, ok)
    \/ \E i \in 1..Len(pipes), a \in TranscribeAnswers : PipeTranscribed(i, a)
    \/ \E i \in 1..Len(pipes), a \in SummarizeAnswers : PipeSummarized(i, a)
    \/ \E i \in 1..Len(pipes), a \in CategorizeAnswers : PipeCategorized(i, a)
    \/ \E i \in 1..Len(pipes) : PipeUpdated(i)
    \/ \E i \in 1..Len(pipes) : PipeUpdateFailed(i)

Spec == Init /\ [][Next]_vars

\* SpecApp: the operations of the signed-in App on the collection, with a
\* configured key. The user starts at most MaxOps operations (submissions
\* that reach the store, card and dashboard operations), one at a time and
\* a submission once the earlier runs have ended; runs, fetches and
\* deliveries interleave with them freely. Items are typed, linked or
\* uploaded; the gateways answer the runs in one way or fail.
Started == Len(content_items) + userOps
Quiet ==
    /\ addCall = NoCall
    /\ organize = NoCall
    /\ \A id \in DOMAIN cards : cards[id].pc = "idle"
Enriched == \A i \in 1..Len(pipes) : pipes[i].pc \in {"done", "failed"}
MayStart == Started < MaxOps /\ Quiet
AppTabs == Tabs \ {"ai_image"}
AppCategorizeAnswers == {r \in CategorizeResults : r.tags # << >>} \cup {Failure}

InitApp == Init /\ apiKey = TRUE

NextApp ==
    \/ SignedIn
    \/ \E f \in fetches : FetchRead(f)
    \/ \E f \in fetches : FetchDeliver(f)
    \/ MayStart /\ Cardinality(fetches \cup {RefreshFetch}) <= MaxFetches /\ handleRefresh
    \/ /\ MayStart /\ Enriched
       /\ \E tab \in AppTabs, input \in Inputs, file \in Files :
              handleSubmit(tab, input, file)
    \/ Room(MaxFetches) /\ StoreInsert
    \/ AddReturned
    \/ AddFailed
    \/ \E i \in 1..Len(pipes) : PipeFetched(i, TRUE)
    \/ \E i \in 1..Len(pipes), a \in TextAnswers({"transcript"}) : PipeTranscribed(i, a)
    \/ \E i \in 1..Len(pipes), a \in TextAnswers({"summary"}) : PipeSummarized(i, a)
    \/ \E i \in 1..Len(pipes), a \in AppCategorizeAnswers : PipeCategorized(i, a)
    \/ \E i \in 1..Len(pipes) : Room(MaxFetches) /\ PipeUpdated(i)
    \/ /\ MayStart /\ Room(MaxFetches)
       /\ \E id \in RowIds(content_items), input \in TagInputs, ok \in BOOLEAN :
              handleAddTag(id, input, ok)
    \/ /\ MayStart /\ Room(MaxFetches)
       /\ \E id \in RowIds(content_items), tag \in UserTags, ok \in BOOLEAN :
              handleRemoveTag(id, tag, ok)
    \/ /\ MayStart /\ Room(MaxFetches)
       /\ \E id \in RowIds(content_items), text \in Edits, ok \in BOOLEAN :
              handleSaveEdit(id, text, ok)
    \/ MayStart /\ \E id \in RowIds(content_items), op \in CardOps : CardStart(id, op)
    \/ \E id \in RowIds(content_items) : CardFailed(id)
    \/ \E id \in RowIds(content_items) : CardTranscribedForSummary(id, "transcript")
    \/ /\ Room(MaxFetches)
       /\ \E id \in RowIds(content_items), ok \in BOOLEAN : CardAnswered(id, "answer", ok)
    \/ MayStart /\ handleOrganize
    \/ organize.pc = "organizing"
         /\ \E r \in OrganizeResults(organize.ids) : OrganizeAnswered(r)
    \/ Room(MaxFetches) /\ \E ok \in BOOLEAN : OrganizeUpserted(ok)

SpecApp == InitApp /\ [][NextApp]_vars

\* SpecCategorize: categorizeAndTagContent called with every item, with
\* and without a configured key.
NextCategorize ==
    \/ \E item \in CategorizeItems : categorizeAndTagContent(item)
    \/ \E answer \in CategorizeResponses : CategorizeAnswered(answer)
    \/ CategorizeSettled

SpecCategorize == Init /\ [][NextCategorize]_vars

\* SpecSync: creates of typed items, their write-backs, refreshes, the
\* subscription, and the fetches they start, which the store may read and
\* the client may receive in any order, or lose. A fetch may be in flight
\* beyond the MaxFetches of SpecApp, so that a write overtakes a fetch
\* already read.
NextSync ==
    \/ SignedIn
    \/ \E f \in fetches : FetchRead(f)
    \/ \E f \in fetches : FetchDeliver(f)
    \/ \E f \in fetches : FetchFail(f)
    \/ /\ Started < MaxOps
       /\ Cardinality(fetches \cup {RefreshFetch}) <= MaxFetches + 1
       /\ handleRefresh
    \/ /\ Started < MaxOps
       /\ \E input \in Inputs : handleSubmit("text", input, Null)
    \/ Room(MaxFetches + 1) /\ StoreInsert
    \/ AddReturned
    \/ AddFailed
    \/ \E i \in 1..Len(pipes), a \in AppCategorizeAnswers : PipeCategorized(i, a)
    \/ \E i \in 1..Len(pipes) : Room(MaxFetches + 1) /\ PipeUpdated(i)

SpecSync == InitApp /\ [][NextSync]_vars

\* The session: sign-in, sign-out and a changed user object around the
\* content subscription, with creates and their write-backs as the changes
\* the channel reports.
NextSession ==
    \/ SignedIn
    \/ Started < MaxOps /\ SignedOut
    \/ Started < MaxOps /\ UserChanged
    \/ \E f \in fetches : FetchRead(f)
    \/ \E f \in fetches : FetchDeliver(f)
    \/ \E f \in fetches : FetchFail(f)
    \/ /\ Started < MaxOps
       /\ currentUser # Null
       /\ \E input \in Inputs : handleSubmit("text", input, Null)
    \/ Room(MaxFetches + 1) /\ StoreInsert
    \/ AddReturned
    \/ AddFailed
    \/ \E i \in 1..Len(pipes), a \in AppCategorizeAnswers : PipeCategorized(i, a)
    \/ \E i \in 1..Len(pipes) : Room(MaxFetches + 1) /\ PipeUpdated(i)

SpecSession == InitApp /\ [][NextSession]_vars

\* The organize pass over the items shown, with every shape of answer,
\* beside creates and their write-backs; the user starts one operation at
\* a time.
NextOrganize ==
    \/ SignedIn
    \/ \E f \in fetches : FetchRead(f)
    \/ \E f \in fetches : FetchDeliver(f)
    \/ /\ Len(content_items) < MaxItems /\ Quiet /\ Enriched
       /\ \E input \in Inputs : handleSubmit("text", input, Null)
    \/ Room(MaxFetches) /\ StoreInsert
    \/ AddReturned
    \/ \E i \in 1..Len(pipes), a \in AppCategorizeAnswers : PipeCategorized(i, a)
    \/ \E i \in 1..Len(pipes) : Room(MaxFetches) /\ PipeUpdated(i)
    \/ userOps < MaxOrganize /\ Quiet /\ Enriched /\ handleOrganize
    \/ organize.pc = "organizing"
         /\ \E r \in OrganizeAnswers(organize.ids) : OrganizeAnswered(r)
    \/ Room(MaxFetches) /\ \E ok \in BOOLEAN : OrganizeUpserted(ok)

SpecOrganize == InitApp /\ [][NextOrganize]_vars

\* The organize pass when the answer may name any id.
NextOrganizeAnyId ==
    \/ SignedIn
    \/ \E f \in fetches : FetchRead(f)
    \/ \E f \in fetches : FetchDeliver(f)
    \/ /\ Len(content_items) < MaxItems /\ Quiet
       /\ \E input \in Inputs : handleSubmit("text", input, Null)
    \/ Room(MaxFetches) /\ StoreInsert
    \/ AddReturned
    \/ userOps < MaxOrganize /\ Quiet /\ handleOrganize
    \/ \E r \in AnyIdAnswers : OrganizeAnswered(r)
    \/ Room(MaxFetches) /\ \E ok \in BOOLEAN : OrganizeUpserted(ok)

SpecOrganizeAnyId == InitApp /\ [][NextOrganizeAnyId]_vars

\* updateContentItem through handleUpdateItem, on the rows that creates
\* have stored.
NextUpdate ==
    \/ SignedIn
    \/ \E f \in fetches : FetchRead(f)
    \/ \E f \in fetches : FetchDeliver(f)
    \/ /\ Len(content_items) < MaxItems
       /\ \E input \in Inputs : handleSubmit("text", input, Null)
    \/ Room(MaxFetches) /\ StoreInsert
    \/ AddReturned
    \/ /\ userOps < MaxOps /\ Room(MaxFetches)
       /\ \E item \in Partials, ok \in BOOLEAN : UpdateItemCalled(item, ok)

SpecUpdate == InitApp /\ [][NextUpdate]_vars

\* The operations the user starts from a card, the dashboard and the
\* settings page, each with the failure of its gateway or store call; the
\* items are text notes and uploaded files, the user starts one operation at
\* a time.
SettingsQuiet == settingsPage.profile = "idle" /\ settingsPage.prefs = "idle"

NextOperations ==
    \/ SignedIn
    \/ \E f \in fetches : FetchRead(f)
    \/ \E f \in fetches : FetchDeliver(f)
    \/ /\ MayStart /\ SettingsQuiet
       /\ \E tab \in {"text", "file"}, input \in Inputs, file \in Files :
              handleSubmit(tab, input, file)
    \/ Room(MaxFetches) /\ StoreInsert
    \/ AddReturned
    \/ /\ MayStart /\ SettingsQuiet
       /\ \E id \in RowIds(content_items), op \in CardOps : CardStart(id, op)
    \/ \E id \in RowIds(content_items) : CardFailed(id)
    \/ \E id \in RowIds(content_items) : CardTranscribedForSummary(id, "transcript")
    \/ /\ Room(MaxFetches)
       /\ \E id \in RowIds(content_items), ok \in BOOLEAN : CardAnswered(id, "answer", ok)
    \/ MayStart /\ SettingsQuiet /\ handleOrganize
    \/ organize.pc = "organizing"
         /\ \E r \in OrganizeResults(organize.ids) : OrganizeAnswered(r)
    \/ Room(MaxFetches) /\ \E ok \in BOOLEAN : OrganizeUpserted(ok)
    \/ MayStart /\ SettingsQuiet /\ handleProfileSubmit
    \/ Room(MaxFetches) /\ \E ok \in BOOLEAN : ProfileSaved(ok)
    \/ MayStart /\ SettingsQuiet /\ updateSettings
    \/ \E ok \in BOOLEAN : PrefsSaved(ok)
    \/ \E which \in {"profileMessage", "prefsMessage"} : MessageCleared(which)

SpecOperations == InitApp /\ [][NextOperations]_vars

\* The store and the hosted model answer every request and every answer
\* reaches the client; which answer a request gets is theirs to choose.
SpecSessionFair ==
    /\ SpecSession
    /\ WF_vars(\E f \in fetches : FetchRead(f) \/ FetchFail(f))
    /\ WF_vars(\E f \in fetches : FetchDeliver(f))
    /\ WF_vars(StoreInsert \/ AddFailed)
    /\ WF_vars(AddReturned)
    /\ WF_vars(\E i \in 1..Len(pipes), a \in AppCategorizeAnswers : PipeCategorized(i, a))
    /\ WF_vars(\E i \in 1..Len(pipes) : PipeUpdated(i))

\* The chat modal within one session: typing, dictating and sending, with
\* at most MaxSends messages sent.
NextChat ==
    \/ SignedIn
    \/ \E text \in ChatInputs : setInput(text)
    \/ handleMicClick
    \/ \E transcript \in ChatInputs : onresult(transcript)
    \/ Len(chat.messages) < 2 * MaxSends /\ handleSend
    \/ ChatLocated
    \/ \E text \in ChatTexts : ChatAnswered(text)
    \/ ChatFailed

SpecChat == Init /\ [][NextChat]_vars

\* ---------------------------------------------------------- properties
Awaited == {"fetch", "transcribe", "summarize", "categorize", "update"}
HasCalled(run, name) == \E k \in 1..Len(run.calls) : run.calls[k] = name
CalledBefore(run, first, second) ==
    \E j, k \in 1..Len(run.calls) :
        j < k /\ run.calls[j] = first /\ run.calls[k] = second

\* C1 (SpecApp): the runs started are exactly the rows created whose add
\* call has resumed, one run per row and in the rows' order; a failed
\* create and every other operation leave the runs as they are.
C1_OneRunPerSuccessfulCreate ==
    /\ Len(pipes) = Len(content_items) - (IF addCall.pc = "inserted" THEN 1 ELSE 0)
    /\ \A k \in 1..Len(pipes) : pipes[k].newItem.id = content_items[k].id

\* a create succeeded and started its run, a create failed, and another
\* operation was carried out
C1_Witness ==
    /\ Len(pipes) = 1
    /\ Len(content_items) = 1
    /\ error = ErrAdd
    /\ userOps >= 1
    /\ addCall = NoCall

\* C2 (Spec): the step in which handleAddItem returns starts the run and
\* waits for none of its steps (the run has made its first call and
\* nothing more), leaving the error state alone; no step of a run touches
\* the add call, the form or the error state; the error becomes ErrAdd only
\* in the step in which a pending create fails.
C2_Detached ==
    [][/\ (addCall.pc = "inserted" /\ addCall' = NoCall) =>
              /\ Len(pipes') = Len(pipes) + 1
              /\ pipes'[Len(pipes')].pc \in Awaited \cup {"failed"}
              /\ Len(pipes'[Len(pipes')].calls) = 1
              /\ error' = error
              /\ ~form'.isLoading
       /\ \A i \in 1..Len(pipes) :
              pipes'[i] # pipes[i] =>
                  addCall' = addCall /\ form' = form /\ error' = error
       /\ (error' = ErrAdd /\ error # ErrAdd) =>
              /\ addCall.pc = "inserting"
              /\ addCall' = NoCall
              /\ pipes' = pipes
              /\ content_items' = content_items]_vars

\* the add call has returned and the form is idle while a run still awaits
\* an answer, and another run has failed without an error being shown
C2_Witness ==
    /\ addCall = NoCall
    /\ ~form.isLoading
    /\ error = ""
    /\ \E i, j \in 1..Len(pipes) :
           pipes[i].pc \in Awaited /\ pipes[j].pc = "failed"

\* C3 (Spec), as the specification states it: for an audio item
\* categorizeAndTagContent is called only after transcribeAudio, and the
\* update that carries the category carries a non-empty transcription.
C3_AudioCategoryCarriesTranscription ==
    \A i \in 1..Len(pipes) :
        pipes[i].newItem.type = "audio" =>
            /\ HasCalled(pipes[i], "categorizeAndTagContent") =>
                   CalledBefore(pipes[i], "transcribeAudio", "categorizeAndTagContent")
            /\ pipes[i].pc \in {"update", "done"} =>
                   /\ "category" \in DOMAIN pipes[i].updatedItem
                   /\ "transcription" \in DOMAIN pipes[i].updatedItem
                   /\ pipes[i].updatedItem.transcription # ""

\* C4 (Spec), as the specification states it: for a url item
\* categorizeAndTagContent is called only after summarizeContent, and the
\* run's write includes the summary field.
C4_UrlWriteIncludesSummary ==
    \A i \in 1..Len(pipes) :
        pipes[i].newItem.type = "url" =>
            /\ HasCalled(pipes[i], "categorizeAndTagContent") =>
                   CalledBefore(pipes[i], "summarizeContent", "categorizeAndTagContent")
            /\ pipes[i].pc \in {"update", "done"} =>
                   "summary" \in DOMAIN pipes[i].updatedItem

C6_FailedRunWritesNothing ==
    [][\A i \in 1..Len(pipes') :
           pipes'[i].pc = "failed" =>
               /\ fromSupabase(RowOf(content_items', pipes'[i].newItem.id))
                      = pipes'[i].newItem
               /\ IF i <= Len(pipes) /\ pipes[i].pc = "failed"
                  THEN pipes'[i] = pipes[i]
                  ELSE error' = error]_vars

\* a run failed at its update, after the transcription had been computed
C6_Witness ==
    \E i \in 1..Len(pipes) :
        /\ pipes[i].pc = "failed"
        /\ Truthy(pipes[i].transcription)
        /\ HasCalled(pipes[i], "updateContentItem")
        /\ error = ""

\* C7 (SpecApp): the tags stored on every row hold no value twice.
C7_StoredTagsHaveNoDuplicates ==
    \A k \in 1..Len(content_items) : NoDup(content_items[k].tags)

\* the user's tag was stored first and the run's write-back, whose answer
\* named a tag twice, came after it
C7_Witness ==
    \E k \in 1..Len(content_items) :
        /\ content_items[k].tags = <<"a">>
        /\ k <= Len(pipes) /\ pipes[k].pc = "done"
        /\ userOps >= 1
        /\ Shown(content_items[k].id) /\ Item(content_items[k].id).tags = <<"b">>

\* C8 (SpecApp), as the specification states it: no step removes a tag
\* from the tags stored on a row.
C8_TagsAppendOnly ==
    [][\A k \in 1..Len(content_items) :
           SeqToSet(content_items[k].tags) \subseteq SeqToSet(content_items'[k].tags)]_vars

\* C8 (SpecApp), amended: a step that changes the tags stored on a row is a
\* run's write-back, which stores a superset of the tags the create
\* returned, or a user's tag action, which stores a superset of the tags of
\* the item as the client last received it or, for a removal, those tags
\* without one of them.
C8_TagWritesExtendWhatTheWriterRead ==
    [][\A k \in 1..Len(content_items) :
           content_items'[k].tags # content_items[k].tags =>
               LET id == content_items[k].id
                   stored == SeqToSet(content_items'[k].tags)
               IN \/ \E i \in 1..Len(pipes) :
                         /\ pipes[i].pc = "update" /\ pipes'[i].pc = "done"
                         /\ pipes[i].newItem.id = id
                         /\ SeqToSet(pipes[i].newItem.tags) \subseteq stored
                  \/ /\ userOps' = userOps + 1
                     /\ Shown(id)
                     /\ \/ SeqToSet(Item(id).tags) \subseteq stored
                        \/ \E t \in SeqToSet(Item(id).tags) :
                               stored = SeqToSet(Item(id).tags) \ {t}]_vars

\* the user's tag was appended to the tag the run had stored
C8_Witness ==
    \E k \in 1..Len(content_items) :
        /\ content_items[k].tags = <<"a", "b">>
        /\ userOps >= 1

\* C9 (SpecApp): no step changes the id, created_at or type of a row.
C9_IdentityFieldsNeverChange ==
    [][\A k \in 1..Len(content_items) :
           /\ content_items'[k].id = content_items[k].id
           /\ content_items'[k].created_at = content_items[k].created_at
           /\ content_items'[k].type = content_items[k].type]_vars

\* an audio item, categorized as text by its run, whose write-back and a
\* batch organize were both stored
C9_Witness ==
    \E k \in 1..Len(content_items) :
        /\ content_items[k].type = "audio"
        /\ Truthy(content_items[k].transcription)
        /\ content_items[k].category # Null
        /\ content_items[k].priority # NoPriority

Contains(items, item) ==
    \E j \in 1..Len(items) :
        items[j].id = item.id /\ items[j].createdAt = item.createdAt

\* C10 (SpecSync), as the specification states it: a collection that
\* reaches the client holds every item whose add call has resumed.
C10_DeliveriesIncludeCreated ==
    [][\A f \in fetches :
           (f.phase = "read" /\ f \notin fetches') =>
               \A k \in 1..Len(created) : Contains(contentItems', created[k])]_vars

\* C10 (SpecSync), amended: a fetch the store reads holds every row
\* inserted before the read, with its id and created_at, and reaches the
\* client as read.
C10_ReadsAfterInsertIncludeCreated ==
    [][/\ \A f \in fetches' \ fetches :
              f.phase = "read" =>
                  \A k \in 1..Len(content_items) :
                      Contains(f.items, fromSupabase(content_items[k]))
       /\ \A f \in fetches :
              (f.phase = "read" /\ f \notin fetches') => contentItems' = f.items]_vars

\* the client holds both items created, the newer first
C10_Witness ==
    /\ Len(created) = 2
    /\ Len(contentItems) = 2
    /\ contentItems[1].id = created[2].id
    /\ contentItems[1].createdAt = created[2].createdAt
    /\ contentItems[2].id = created[1].id

\* C11 (SpecSession): a subscription fetch delivers to the callback only
\* while the channel is subscribed; after unsubscribe no fetch, in flight
\* or later, invokes the callback.
C11_NoDeliveryAfterUnsubscribe ==
    [][\A f \in fetches :
          (f.owner = "subscription" /\ FetchDeliver(f)) => channel > 0]_vars

\* C12 (SpecSessionFair): every row inserted while the channel is
\* subscribed is followed by a delivery of a collection that holds it,
\* unless the subscription ends first.
C12_EveryChangeIsDelivered ==
    \A n \in 1..MaxItems :
        <>(channel > 0 /\ addCall.pc = "inserted" /\ Len(content_items) = n)
            => <>(\/ Len(contentItems) >= n
                  \/ channel = 0 /\ Len(content_items) >= n)

\* C13 (SpecOrganize): the upsert of an organize pass matches its updates
\* to the rows by id. A row whose id no update names is left as it is; a
\* row whose id an update names takes that update's category and priority
\* (the category when it is a string, the priority when it parses to an
\* integer) and keeps every other column.
UpdatesOf(id) ==
    {k \in 1..Len(organize.updates) : organize.updates[k].id = id}

C13_OrganizeMatchesById ==
    [][(organize.pc = "upserting" /\ content_items' # content_items) =>
          /\ Len(content_items') = Len(content_items)
          /\ \A i \in 1..Len(content_items) :
                LET row == content_items[i]
                    new == content_items'[i]
                    ks == UpdatesOf(row.id)
                IN IF ks = {} THEN new = row
                   ELSE /\ \A c \in DOMAIN row \ {"category", "priority"} :
                               new[c] = row[c]
                        /\ \A k \in ks :
                               LET u == organize.updates[k]
                               IN /\ "category" \in DOMAIN u => new.category = u.category
                                  /\ "priority" \in DOMAIN u => new.priority = u.priority
                                  /\ "category" \notin DOMAIN u => new.category = row.category
                                  /\ "priority" \notin DOMAIN u => new.priority = row.priority]_vars

\* an organize pass has answered for the second of two rows only: the
\* second carries the answer's category and priority, the first its own
C13_Witness ==
    /\ organize = NoCall
    /\ Len(content_items) = 2
    /\ content_items[1].priority = NoPriority
    /\ content_items[1].category # "Urgent"
    /\ content_items[2].category = "Urgent"
    /\ content_items[2].priority = 3

\* C14 (SpecOrganize): every stored priority is an integer in 1..5,
\* whatever priority the answer carries; a row no organize pass has
\* written has none.
C14_StoredPriorityInRange ==
    \A i \in 1..Len(content_items) :
        content_items[i].priority \in (1..5) \cup {NoPriority}

\* C15 (SpecUpdate): an update of a row that exists sets exactly the
\* columns of the fields the partial supplies, on the row with that id, and
\* leaves every other column and every other row as it was; an update
\* whose id no row has, or that the store rejects, fails (the error is
\* set) and leaves the table as it was.
UpdateEffect(item, ok) ==
    IF ok /\ item.id \in RowIds(content_items)
    THEN /\ Len(content_items') = Len(content_items)
         /\ \A i \in 1..Len(content_items) :
               LET row == content_items[i]
                   new == content_items'[i]
               IN IF row.id # item.id THEN new = row
                  ELSE \A c \in DOMAIN row :
                          new[c] = IF ToField(c) \in DOMAIN item \ {"id"}
                                   THEN item[ToField(c)] ELSE row[c]
    ELSE content_items' = content_items /\ error' = ErrUpdate

C15_UpdateChangesExactlySuppliedFields ==
    [][userOps' # userOps =>
          \A item \in Partials, ok \in BOOLEAN :
              UpdateItemCalled(item, ok) => UpdateEffect(item, ok)]_vars

\* a summary has been written onto the first of two rows, which keeps its
\* content, and an update for an id that no row has has failed
C15_Witness ==
    /\ Len(content_items) = 2
    /\ content_items[1].summary = "summary"
    /\ content_items[1].content # Null
    /\ content_items[1].tags = << >>
    /\ content_items[2].summary = Null
    /\ error = ErrUpdate
    /\ userOps = 2

\* C16 (SpecCategorize): an object that categorizeAndTagContent returns
\* has both fields the schema requires, category and tags.
C16_ReturnedObjectHasRequiredFields ==
    categorizeCall.pc = "returned" =>
        {"category", "tags"} \subseteq DOMAIN categorizeCall.result

\* C17 (SpecApp): an aiAnalysis, transcription or summary that is set is
\* written afterwards only by the operation that set it. Each operation of
\* SpecApp writes one value of its own (the write-back "transcript" and
\* "summary", the on-demand operations "answer"), so a set value that
\* changes has been written by another operation.
C17_SetFieldsWrittenOnlyByTheirOperation ==
    [][\A i \in 1..Len(content_items) :
          \A c \in {"ai_analysis", "transcription", "summary"} :
              Truthy(content_items[i][c]) =>
                  content_items'[i][c] = content_items[i][c]]_vars

\* C18 (SpecOperations): every operation the user starts ends with its
\* loading flag cleared, and when its gateway or store call has failed an
\* error message is set: the card's or the App's for the four on-demand
\* operations, the App's for organize, the page's message for the two
\* saves. A step that ends an operation without an error has delivered the
\* operation's effect.
CardEnded(id) == cards[id].pc # "idle" /\ cards'[id].pc = "idle"
ProfileEnded == settingsPage.profile = "saving" /\ settingsPage'.profile = "idle"
PrefsEnded == settingsPage.prefs = "saving" /\ settingsPage'.prefs = "idle"

C18_FailuresEndWithErrorAndFlagCleared ==
    [][/\ \A id \in DOMAIN cards :
             CardEnded(id) =>
                 \/ cards'[id].error # ""
                 \/ error' = ErrUpdate
                 \/ content_items' =
                        updateContentItem(content_items, CardUpdate(id, cards[id], "answer"))
       /\ (organize.pc = "organizing" /\ OrganizeAnswered(Failure)) =>
             (organize' = NoCall /\ error' = ErrOrganize)
       /\ (organize.pc = "upserting" /\ organize' # organize) =>
             /\ organize' = NoCall
             /\ \/ error' = ErrOrganize
                \/ content_items' = Upsert(content_items, organize.updates)
       /\ ProfileEnded =>
             /\ ~settingsPage'.isSavingProfile
             /\ \/ settingsPage'.profileMessage = MsgProfileFailed
                \/ /\ settingsPage'.profileMessage = MsgProfileSaved
                   /\ SubFetch \in fetches'
       /\ PrefsEnded =>
             /\ ~settingsPage'.isSavingPrefs
             /\ settingsPage'.prefsMessage \in {MsgPrefsFailed, MsgPrefsSaved}
       /\ (settingsPage'.profile = "idle" => ~settingsPage'.isSavingProfile)
       /\ (settingsPage'.prefs = "idle" => ~settingsPage'.isSavingPrefs)]_vars

\* an organize pass and a profile save have both failed: the App's error
\* and the page's message are set, neither operation is in flight
C18_Witness ==
    /\ organize = NoCall
    /\ error = ErrOrganize
    /\ settingsPage.profile = "idle"
    /\ ~settingsPage.isSavingProfile
    /\ settingsPage.profileMessage = MsgProfileFailed

\* C19 (SpecSession): the content subscription follows the signed-in user:
\* exactly one channel is subscribed while a user is signed in, none while
\* no user is, across sign-in, sign-out and a changed user object.
C19_OneSubscriptionWhileSignedIn ==
    channel = (IF currentUser = Null THEN 0 ELSE 1)

\* the user has signed out and in again, or the user object has changed
\* twice, and the subscription of the present user is the only one
C19_Witness ==
    /\ currentUser # Null
    /\ userOps = MaxOps
    /\ content_items = << >>
    /\ channel = 1

\* String.prototype.toLowerCase on the tags the answers are drawn from
ToLowerCase(tag) == IF tag = "Urgent" THEN "urgent" ELSE tag

\* C20 (SpecCategorize): the tags that categorizeAndTagContent returns are
\* at most four and each is lowercase.
C20_ReturnedTagsFewAndLowercase ==
    (categorizeCall.pc = "returned" /\ "tags" \in DOMAIN categorizeCall.result) =>
        /\ Len(categorizeCall.result.tags) <= 4
        /\ \A k \in 1..Len(categorizeCall.result.tags) :
               ToLowerCase(categorizeCall.result.tags[k]) = categorizeCall.result.tags[k]

\* C21 (Spec): the write-back of a run supplies the category and the
\* merged tags, a transcription only for an audio item and a summary only
\* for a url item; the row takes them and keeps its content, type,
\* mime_type, created_at, priority and ai_analysis, and every other row is
\* as it was.
C21_WriteBackSuppliesItsFieldsOnly ==
    [][\A i \in 1..Len(pipes) :
          (pipes[i].pc = "update" /\ pipes'[i].pc = "done") =>
              LET u == pipes[i].updatedItem
                  item == pipes[i].newItem
              IN /\ {"id", "category", "tags"} \subseteq DOMAIN u
                 /\ DOMAIN u \subseteq {"id", "category", "tags", "transcription", "summary"}
                 /\ "transcription" \in DOMAIN u => item.type = "audio"
                 /\ "summary" \in DOMAIN u => item.type = "url"
                 /\ Len(content_items') = Len(content_items)
                 /\ \A k \in 1..Len(content_items) :
                       LET row == content_items[k]
                           new == content_items'[k]
                       IN IF row.id # item.id THEN new = row
                          ELSE /\ new.category = u.category
                               /\ new.tags = u.tags
                               /\ new.transcription # row.transcription =>
                                      (item.type = "audio" /\ new.transcription = u.transcription)
                               /\ new.summary # row.summary =>
                                      (item.type = "url" /\ new.summary = u.summary)
                               /\ \A c \in {"id", "user_id", "content", "type", "mime_type",
                                              "created_at", "priority", "ai_analysis"} :
                                      new[c] = row[c]]_vars

\* the run of an audio item has written back: the row has the category and
\* the transcript, and the content and type the create stored
C21_Witness ==
    \E i \in 1..Len(pipes) :
        /\ pipes[i].pc = "done"
        /\ pipes[i].newItem.type = "audio"
        /\ RowOf(content_items, pipes[i].newItem.id).transcription = "transcript"
        /\ RowOf(content_items, pipes[i].newItem.id).category = "Work"
        /\ RowOf(content_items, pipes[i].newItem.id).type = "audio"

\* C22 (SpecApp): a user edit and a write-back of one item are applied
\* without a version check and without a merge. The write-back in flight
\* keeps the update it computed from the created item, is applied whatever
\* the row holds by then, and sets exactly its columns; an edit sets the
\* tags or the content computed from the item the card shows and leaves
\* every other column, the write-back's included, as stored. For a column
\* both write, the later statement's value is the one stored.
EditsOf(id) ==
    {[id |-> id, tags |-> Append(Item(id).tags, t)] : t \in UserTags}
    \cup {[id |-> id, tags |-> Without(Item(id).tags, t)] : t \in UserTags}
    \cup {[id |-> id, content |-> e] : e \in Edits}

C22_EditAndWriteBackOverwriteUnchecked ==
    [][/\ \A i \in 1..Len(pipes) :
             pipes[i].pc = "update" =>
                 \/ pipes'[i] = pipes[i]
                 \/ /\ pipes'[i].pc = "done"
                    /\ pipes'[i].updatedItem = pipes[i].updatedItem
                    /\ UpdateEffect(pipes[i].updatedItem, TRUE)
       /\ (userOps' # userOps /\ content_items' # content_items) =>
             \E id \in RowIds(content_items) :
                 /\ Shown(id)
                 /\ \E edit \in EditsOf(id) : UpdateEffect(edit, TRUE)]_vars

\* the write-back of an item is in flight with the tags it computed from
\* the created item, and an edit has stored another tag on the row since
C22_Witness ==
    \E i \in 1..Len(pipes) :
        /\ pipes[i].pc = "update"
        /\ pipes[i].updatedItem.tags = <<"a">>
        /\ RowOf(content_items, pipes[i].newItem.id).tags = <<"b">>

\* C23 (Spec): every run works on a row the store holds, the one its
\* create returned: the update it issues names the id of a stored row.
C23_CreatePrecedesWriteBack ==
    \A i \in 1..Len(pipes) :
        /\ pipes[i].newItem.id \in RowIds(content_items)
        /\ pipes[i].updatedItem.id = pipes[i].newItem.id
        /\ \E k \in 1..Len(created) : created[k].id = pipes[i].newItem.id

\* a run has issued its update and a second create is with the store
C23_Witness ==
    /\ addCall.pc = "inserting"
    /\ \E i \in 1..Len(pipes) : pipes[i].pc = "update"

\* C24 (Spec): a run calls transcribeAudio or summarizeContent at most
\* once and not both, categorizeAndTagContent at most once and
\* updateContentItem at most once; a run that has failed makes no further
\* call.
Calls(run, name) == Cardinality({k \in 1..Len(run.calls) : run.calls[k] = name})

C24_RunNeverReattempts ==
    [][\A i \in 1..Len(pipes') :
          /\ Calls(pipes'[i], "transcribeAudio") + Calls(pipes'[i], "summarizeContent") <= 1
          /\ Calls(pipes'[i], "fetch") <= 1
          /\ Calls(pipes'[i], "categorizeAndTagContent") <= 1
          /\ Calls(pipes'[i], "updateContentItem") <= 1
          /\ (i <= Len(pipes) /\ pipes[i].pc = "failed") => pipes'[i] = pipes[i]]_vars

\* the run of an audio item has failed on its transcription, a step is
\* taken elsewhere, and the run has made no call since
C24_Witness ==
    /\ Len(pipes) = 2
    /\ pipes[1].pc = "failed"
    /\ pipes[1].calls = <<"fetch", "transcribeAudio">>

\* C25 (SpecOrganizeAnyId): the upsert of an organize pass changes only
\* rows whose id the pass sent, and adds no row.
C25_OrganizeWritesOnlySentRows ==
    [][organize.pc = "upserting" =>
          /\ Len(content_items') = Len(content_items)
          /\ \A k \in 1..Len(content_items) :
                content_items'[k] # content_items[k] =>
                    content_items[k].id \in organize.ids]_vars

\* C26 (SpecSession): while no user is signed in the App's contentItems is
\* empty; a fetch in flight at sign-out does not fill it again.
C26_ContentEmptyWhileSignedOut ==
    currentUser = Null => contentItems = << >>

\* C27 (SpecSync): a collection read earlier never replaces one read later.
\* The rows of SpecSync are only added and the user stays signed in, so a
\* collection read later holds at least the rows of one read earlier: no
\* delivery shortens contentItems.
C27_EarlierReadNeverOverwritesLater ==
    [][\A f \in fetches :
          FetchDeliver(f) => Len(f.items) >= Len(contentItems)]_vars

\* C28 (SpecSessionFair): the content loading flag of a signed-in user,
\* once true, becomes false again (or the user signs out), whether the
\* fetch succeeds or fails.
C28_LoadingFlagEventuallyCleared ==
    (currentUser # Null /\ isLoading) ~> (~isLoading \/ currentUser = Null)

\* C29 (Spec): the step that ends a submit of the add form leaves the form's
\* loading flag false, and it clears the typed text and the chosen file
\* exactly when the item was created; when the create failed they are kept.
C29_InputClearedOnlyAfterCreate ==
    [][(addCall # NoCall /\ addCall' = NoCall)
         => /\ ~form'.isLoading
            /\ IF Len(created') > Len(created)
               THEN form'.inputValue = "" /\ form'.file = Null
               ELSE form'.inputValue = form.inputValue /\ form'.file = form.file]_vars

\* C30 (SpecChat): a chat send is accepted only when the input is not blank
\* and no send is in progress; it appends exactly one user message, and its
\* end appends exactly one model message (the response or the apology) and
\* leaves the loading flag false; the list alternates user, model.
C30_ChatSendsPairUp ==
    /\ [](/\ \A i \in 1..Len(chat.messages) :
                chat.messages[i].role = IF i % 2 = 1 THEN "user" ELSE "model"
          /\ chat.isLoading <=> Len(chat.messages) % 2 = 1)
    /\ [][\/ chat'.messages = chat.messages
          \/ /\ trim(chat.input) # << >>
             /\ ~chat.isLoading
             /\ chat'.messages = Append(chat.messages, [role |-> "user", text |-> chat.input])
          \/ /\ chat.isLoading
             /\ ~chat'.isLoading
             /\ \E text \in ChatTexts \cup {ChatApology} :
                   chat'.messages = Append(chat.messages, [role |-> "model", text |-> text])]_vars

C30_Witness ==
    /\ Len(chat.messages) = 4
    /\ chat.messages[2].text = ChatApology
    /\ chat.messages[4].text \in ChatTexts
    /\ ~chat.isLoading

====
